---- MODULE Spec2Model ----
(***************************************************************************)
(* A model of gog-unpacker: manifest generation (grouping source folders   *)
(* by game key, cleaning keys, choosing installers and destinations), the  *)
(* !meta.txt memo, the GOGDB cache client and the unpack batch loop.       *)
(*                                                                         *)
(* Text is modelled as a sequence of symbols.  A symbol is a string that   *)
(* stands for its own characters: single characters ("g", "_", " ") and a  *)
(* few whole words ("base", "setup_", ".exe") that the inputs never spell  *)
(* out character by character, so that two texts are equal exactly when    *)
(* their symbol sequences are.  Python's None is the record NoneVal.       *)
(***************************************************************************)
EXTENDS Integers, Sequences, FiniteSets, TLC

VARIABLES
    \* _clean_game_key applied once and again (SpecClean)
    raw_key, clean_key, reclean_key, cpc,
    \* the scan of one source directory (SpecGroup)
    source_type, listing, ignores, latest, gpc,
    \* the installers of one game folder (SpecInst)
    inst_key, folder_files, base_only, base_installer, sorted_installers, ipc,
    \* one !meta.txt written and read back (SpecMeta)
    meta_data, meta_file, existing_meta, mpc,
    \* the GOGDB cache artifact and its client (SpecDb)
    db_file, temp_file, auto_update, available, client, refresh, db_prior, lookups,
    \* one call of _get_game_details, layer by layer (SpecDetails)
    details_of, game_name, game_version, consulted, dpc,
    \* unpack.main: manifests, the destination tree and the batch loop
    \* (SpecManifest, SpecRun)
    args, config, configs, source_fs, dest_fs, gogdb, manifest_data, games_to_process, pc,
    config_idx, game_idx, total_games, successful_games, failed_extractions,
    rerun, memo, last, faults

cleanVars == <<raw_key, clean_key, reclean_key, cpc>>
groupVars == <<source_type, listing, ignores, latest, gpc>>
instVars == <<inst_key, folder_files, base_only, base_installer, sorted_installers, ipc>>
metaVars == <<meta_data, meta_file, existing_meta, mpc>>
dbVars == <<db_file, temp_file, auto_update, available, client, refresh, db_prior, lookups>>
detailVars == <<details_of, game_name, game_version, consulted, dpc>>
runVars == <<args, config, configs, source_fs, dest_fs, gogdb, manifest_data, games_to_process, pc,
             config_idx, game_idx, total_games, successful_games, failed_extractions,
             rerun, memo, last, faults>>
vars == <<cleanVars, groupVars, instVars, metaVars, dbVars, detailVars, runVars>>

\* what the actions of one part leave alone
notCleanVars == <<groupVars, instVars, metaVars, dbVars, detailVars, runVars>>
notGroupVars == <<cleanVars, instVars, metaVars, dbVars, detailVars, runVars>>
notInstVars == <<cleanVars, groupVars, metaVars, dbVars, detailVars, runVars>>
notMetaVars == <<cleanVars, groupVars, instVars, dbVars, detailVars, runVars>>
notDbVars == <<cleanVars, groupVars, instVars, metaVars, detailVars, runVars>>
notRunVars == <<cleanVars, groupVars, instVars, metaVars, dbVars, detailVars>>
notDetailVars == <<cleanVars, groupVars, instVars, metaVars, dbVars, runVars>>

\* Python values that may be None: None, an int, a str, a list
NoneVal == [none |-> TRUE]
PyInt(n) == [int |-> n]
PyStr(s) == [str |-> s]
PyList(l) == [list |-> l]

----------------------------------------------------------------------------
(* Text helpers                                                            *)

\* s ends with suf (re: suf$)
EndsWith(s, suf) ==
    /\ Len(s) >= Len(suf)
    /\ SubSeq(s, Len(s) - Len(suf) + 1, Len(s)) = suf

\* s starts with pre (re.match of a literal)
StartsWith(s, pre) ==
    /\ Len(s) >= Len(pre)
    /\ SubSeq(s, 1, Len(pre)) = pre

\* re.sub(suf + '$', '', s)
StripSuffix(s, suf) ==
    IF EndsWith(s, suf) THEN SubSeq(s, 1, Len(s) - Len(suf)) ELSE s

----------------------------------------------------------------------------
(* ManifestGenerator._clean_game_key                                       *)

\* the words of (the|video|action|adventure|playing)
GameQualifiers == {"the", "video", "action", "adventure", "playing"}

\* the same function without the '_second_base' exception
CleanGameKeyNoSecond(raw) ==
    LET k1 == StripSuffix(raw, <<"_", "base", "_", "game">>)
        k2 == StripSuffix(k1, <<"_", "base">>)
    IN  IF \E q \in GameQualifiers : EndsWith(k2, <<"_", q, "_", "game">>)
        THEN k2
        ELSE StripSuffix(k2, <<"_", "game">>)

CleanGameKey(raw) ==
    LET k1 == StripSuffix(raw, <<"_", "base", "_", "game">>)
        k2 == IF EndsWith(k1, <<"_", "second", "_", "base">>)
              THEN k1
              ELSE StripSuffix(k1, <<"_", "base">>)
    IN  IF \E q \in GameQualifiers : EndsWith(k2, <<"_", q, "_", "game">>)
        THEN k2
        ELSE StripSuffix(k2, <<"_", "game">>)

----------------------------------------------------------------------------
(* ManifestGenerator._get_latest_source_folder_by_game_key                 *)

\* "_windows_gog_(" as one symbol
Marker == "_windows_gog_("
Digits == {"0", "1", "2"}
Letters == {"g", "h", "old"}
\* [a-zA-Z0-9_.]
KeyChars == Letters \cup Digits \cup {"_", "."}
\* [\d\.]
VersionChars == Digits \cup {"."}

DigitValue(d) == IF d = "0" THEN 0 ELSE IF d = "1" THEN 1 ELSE 2

\* index of the first symbol of s equal to x, 0 when there is none
FirstIndex(s, x) ==
    IF \E i \in 1..Len(s) : s[i] = x
    THEN CHOOSE i \in 1..Len(s) : s[i] = x /\ \A j \in 1..(i - 1) : s[j] # x
    ELSE 0

\* the longest run of symbols of class cls in s that starts at index i
RunEnd(s, i, cls) ==
    CHOOSE k \in (i - 1)..Len(s) :
        /\ \A j \in i..k : s[j] \in cls
        /\ (k = Len(s) \/ s[k + 1] \notin cls)

\* re.match(r"([a-zA-Z0-9_.]+)_windows_gog_\(([\d\.]+)\)", name): the two
\* groups, or NoneVal.  The marker holds "(", which group 1 cannot, so group 1
\* is all that precedes the first marker; group 2 is the whole run of version
\* characters after it, which ")" must follow.
FolderMatch(name) ==
    LET m == FirstIndex(name, Marker)
        e == RunEnd(name, m + 1, VersionChars)
    IN  IF /\ m >= 2
           /\ \A j \in 1..(m - 1) : name[j] \in KeyChars
           /\ e >= m + 1
           /\ e < Len(name)
           /\ name[e + 1] = ")"
        THEN [key |-> SubSeq(name, 1, m - 1), version |-> SubSeq(name, m + 1, e)]
        ELSE NoneVal

\* int(version_str.replace('.', '')), NoneVal on ValueError
RECURSIVE DigitsToInt(_, _)
DigitsToInt(s, acc) ==
    IF Len(s) = 0 THEN acc
    ELSE IF Head(s) = "." THEN DigitsToInt(Tail(s), acc)
    ELSE DigitsToInt(Tail(s), 10 * acc + DigitValue(Head(s)))

PackageVersion(version_str) ==
    IF \E i \in 1..Len(version_str) : version_str[i] # "."
    THEN PyInt(DigitsToInt(version_str, 0))
    ELSE NoneVal

\* lines 108-121: the (game_key, package_version) of one folder name
FolderGameKey(stype, name) ==
    IF stype = "gog-games" /\ FolderMatch(name) # NoneVal
    THEN FolderMatch(name).key
    ELSE name

FolderVersion(stype, name) ==
    IF stype = "gog-games" /\ FolderMatch(name) # NoneVal
    THEN PackageVersion(FolderMatch(name).version)
    ELSE NoneVal

\* re.fullmatch(re.escape(pattern).replace(r'\*', '.*'), name)
RECURSIVE GlobMatch(_, _)
GlobMatch(pat, s) ==
    IF Len(pat) = 0 THEN Len(s) = 0
    ELSE IF Head(pat) = "*"
         THEN \E k \in 0..Len(s) : GlobMatch(Tail(pat), SubSeq(s, k + 1, Len(s)))
    ELSE Len(s) > 0 /\ Head(s) = Head(pat) /\ GlobMatch(Tail(pat), Tail(s))

\* lines 98-106
IsIgnored(igs, name) == \E p \in igs : GlobMatch(p, name)

\* the sort key of line 130, (x[0] is None, x[0]), as a pair of numbers
SortKey(ver) == IF ver = NoneVal THEN <<1, 0>> ELSE <<0, ver.int>>

KeyLess(a, b) == a[1] < b[1] \/ (a[1] = b[1] /\ a[2] < b[2])

\* list.sort(reverse=True, key=...): stable, greatest key first
RECURSIVE SortReverse(_)
InsertReverse(sorted, t) ==
    LET after == {i \in 1..Len(sorted) : KeyLess(SortKey(sorted[i].version), SortKey(t.version))}
        pos == IF after = {} THEN Len(sorted) + 1
               ELSE CHOOSE i \in after : \A j \in after : i <= j
    IN  SubSeq(sorted, 1, pos - 1) \o <<t>> \o SubSeq(sorted, pos, Len(sorted))
SortReverse(ts) ==
    IF Len(ts) = 0 THEN <<>>
    ELSE InsertReverse(SortReverse(SubSeq(ts, 1, Len(ts) - 1)), ts[Len(ts)])

\* the folders of the listing that are not ignored, in listing order
RECURSIVE KeptFolders(_, _)
KeptFolders(igs, ls) ==
    IF Len(ls) = 0 THEN <<>>
    ELSE IF IsIgnored(igs, Head(ls)) THEN KeptFolders(igs, Tail(ls))
    ELSE <<Head(ls)>> \o KeptFolders(igs, Tail(ls))

\* lines 123-124: the tuples of one game key, in listing order
RECURSIVE TuplesOfKey(_, _, _)
TuplesOfKey(stype, kept, k) ==
    IF Len(kept) = 0 THEN <<>>
    ELSE (IF FolderGameKey(stype, Head(kept)) = k
          THEN <<[version |-> FolderVersion(stype, Head(kept)), folder |-> Head(kept)]>>
          ELSE <<>>) \o TuplesOfKey(stype, Tail(kept), k)

\* the whole method: game key -> latest source folder name
LatestSourceFolderByGameKey(stype, ls, igs) ==
    LET kept == KeptFolders(igs, ls)
        keys == {FolderGameKey(stype, kept[i]) : i \in 1..Len(kept)}
    IN  [k \in keys |-> SortReverse(TuplesOfKey(stype, kept, k))[1].folder]

----------------------------------------------------------------------------
(* ManifestGenerator._get_base_installer_path, _get_sorted_installers      *)
(* A game folder is the sequence of its file names in the order the         *)
(* directory enumerates them (glob.glob keeps that order).                  *)

\* the number of characters of a symbol
SymLen(x) ==
    CASE x = "setup_" -> 6
      [] x \in {".exe", ".bin"} -> 4
      [] x = Marker -> 14
      [] x \in {"foo", "old", "the"} -> 3
      [] x \in {"base", "game"} -> 4
      [] x = "second" -> 6
      [] OTHER -> 1

\* len(os.path.basename(path))
RECURSIVE NameLen(_)
NameLen(name) == IF Len(name) = 0 THEN 0 ELSE SymLen(Head(name)) + NameLen(Tail(name))

\* fnmatch of 'setup_*.exe'
IsSetupExe(name) == Len(name) >= 2 /\ name[1] = "setup_" /\ name[Len(name)] = ".exe"

\* glob.glob(os.path.join(game_source_dir, 'setup_*.exe'))
GlobSetupExe(files) == SelectSeq(files, IsSetupExe)

\* all_paths.sort(key=lambda x: len(os.path.basename(x))): stable, shortest first
RECURSIVE SortByLen(_)
InsertByLen(sorted, f) ==
    LET after == {i \in 1..Len(sorted) : NameLen(f) < NameLen(sorted[i])}
        pos == IF after = {} THEN Len(sorted) + 1
               ELSE CHOOSE i \in after : \A j \in after : i <= j
    IN  SubSeq(sorted, 1, pos - 1) \o <<f>> \o SubSeq(sorted, pos, Len(sorted))
SortByLen(paths) ==
    IF Len(paths) = 0 THEN <<>>
    ELSE InsertByLen(SortByLen(SubSeq(paths, 1, Len(paths) - 1)), paths[Len(paths)])

\* f'{installer_basename}-1.bin' of lines 277-278
CompanionBin(name) == SubSeq(name, 1, Len(name) - 1) \o <<"-", "1", ".bin">>

\* os.path.exists of a name in the folder
FileExists(files, name) == \E i \in 1..Len(files) : files[i] = name

HasCompanion(files, name) == FileExists(files, CompanionBin(name))

\* re.IGNORECASE on the symbols that have a case
Lower(x) == IF x = "G" THEN "g" ELSE IF x = "H" THEN "h" ELSE x

\* [-_\s]
Separators == {"-", "_", " "}

\* re.match of clean_key.replace('_', r'[-_\s]+') at the start of s
RECURSIVE KeyPatternMatch(_, _)
KeyPatternMatch(key, s) ==
    IF Len(key) = 0 THEN TRUE
    ELSE IF Head(key) = "_"
         THEN \E n \in 1..Len(s) :
                  /\ \A i \in 1..n : s[i] \in Separators
                  /\ KeyPatternMatch(Tail(key), SubSeq(s, n + 1, Len(s)))
    ELSE Len(s) > 0 /\ Lower(Head(s)) = Lower(Head(key)) /\ KeyPatternMatch(Tail(key), Tail(s))

\* main_installer_pattern.match(os.path.basename(p)): ^setup_<key pattern>
MainInstallerMatch(key, name) ==
    Len(name) >= 1 /\ Lower(name[1]) = "setup_" /\ KeyPatternMatch(key, Tail(name))

\* the first element of seq at one of the places `hits`, NoneVal when there
\* is none
FirstWith(seq, hits) ==
    IF hits = {} THEN NoneVal
    ELSE PyStr(seq[CHOOSE i \in hits : \A j \in hits : i <= j])

\* the selection without step 1: the key pattern, then the shortest name
BaseInstallerPatternFirst(key, files) ==
    LET all_paths == SortByLen(GlobSetupExe(files))
        with_main == FirstWith(all_paths, {i \in 1..Len(all_paths) : MainInstallerMatch(key, all_paths[i])})
    IN  IF Len(all_paths) = 0 THEN NoneVal
        ELSE IF with_main # NoneVal THEN with_main
        ELSE PyStr(all_paths[1])

\* lines 269-292: the base installer among all_paths, sorted by name length
BaseAmong(key, files, all_paths) ==
    LET with_bin == FirstWith(all_paths, {i \in 1..Len(all_paths) : HasCompanion(files, all_paths[i])})
        with_main == FirstWith(all_paths, {i \in 1..Len(all_paths) : MainInstallerMatch(key, all_paths[i])})
    IN  IF Len(all_paths) = 0 THEN NoneVal
        ELSE IF with_bin # NoneVal THEN with_bin
        ELSE IF with_main # NoneVal THEN with_main
        ELSE PyStr(all_paths[1])

\* _get_base_installer_path: the base installer's name, or NoneVal
GetBaseInstallerPath(key, files) == BaseAmong(key, files, SortByLen(GlobSetupExe(files)))

\* the method without the filter of line 257
SortedInstallersBaseRepeated(key, files, only_base) ==
    LET base == GetBaseInstallerPath(key, files)
    IN  IF base = NoneVal THEN <<>>
        ELSE <<base.str>> \o (IF only_base THEN <<>> ELSE GlobSetupExe(files))

\* lines 245-262: the list built around base_installer_path
InstallersAround(files, only_base, base) ==
    LET Other(p) == p # base.str
    IN  IF base = NoneVal THEN <<>>
        ELSE <<base.str>> \o
             (IF only_base THEN <<>> ELSE SelectSeq(GlobSetupExe(files), Other))

\* _get_sorted_installers: the names relative to the folder, base first
GetSortedInstallers(key, files, only_base) ==
    InstallersAround(files, only_base, GetBaseInstallerPath(key, files))

----------------------------------------------------------------------------
(* utils.create_meta_file, utils.read_meta_file                            *)
(* A dict is a function from keys (texts) to Python values; the !meta.txt  *)
(* file is its text, NoneVal when the file does not exist.                 *)

\* \s
Whitespace == {" ", "\n"}

\* str.strip()
RECURSIVE StripLeft(_)
StripLeft(s) ==
    IF Len(s) > 0 /\ Head(s) \in Whitespace THEN StripLeft(Tail(s)) ELSE s
RECURSIVE StripRight(_)
StripRight(s) ==
    IF Len(s) > 0 /\ s[Len(s)] \in Whitespace
    THEN StripRight(SubSeq(s, 1, Len(s) - 1)) ELSE s
Strip(s) == StripLeft(StripRight(s))

\* str.lower() on the symbols that have a case
LowerChar(x) ==
    CASE x = "N" -> "n" [] x = "O" -> "o" [] x = "E" -> "e" [] OTHER -> Lower(x)
LowerText(s) == [i \in 1..Len(s) |-> LowerChar(s[i])]

\* repr of a list of str: ['a', 'b']
RECURSIVE ReprItems(_)
ReprItems(l) ==
    IF Len(l) = 0 THEN <<>>
    ELSE <<"'">> \o Head(l) \o <<"'">> \o
         (IF Len(l) > 1 THEN <<",", " ">> ELSE <<>>) \o ReprItems(Tail(l))

\* str(value)
PyToStr(v) ==
    IF v = NoneVal THEN <<"N", "o", "n", "e">>
    ELSE IF "list" \in DOMAIN v THEN <<"[">> \o ReprItems(v.list) \o <<"]">>
    ELSE v.str

\* line 72: f"{str(key).strip()}: {str(value).strip()}\n"
MetaLine(key, v) == Strip(key) \o <<":", " ">> \o Strip(PyToStr(v)) \o <<"\n">>

\* the keys of meta_data, in the order main inserts them (lines 141-147)
MetaKeys ==
    << <<"game_name">>, <<"game_version">>, <<"rel_launcher_path">>,
       <<"source_directory">>, <<"sorted_installers">> >>

\* create_meta_file: the text written for game_data
RECURSIVE MetaLines(_, _)
MetaLines(keys, game_data) ==
    IF Len(keys) = 0 THEN <<>>
    ELSE MetaLine(Head(keys), game_data[Head(keys)]) \o MetaLines(Tail(keys), game_data)
MetaContent(game_data) == MetaLines(MetaKeys, game_data)

\* `for line in f`: the lines of a text, without their line ends
RECURSIVE SplitLines(_)
SplitLines(text) ==
    IF Len(text) = 0 THEN <<>>
    ELSE LET nl == FirstIndex(text, "\n")
         IN  IF nl = 0 THEN <<text>>
             ELSE <<SubSeq(text, 1, nl - 1)>> \o SplitLines(SubSeq(text, nl + 1, Len(text)))

\* [\w\-]: the key names count as words
MetaKeyChars ==
    {MetaKeys[i][1] : i \in 1..Len(MetaKeys)} \cup Letters \cup Digits
        \cup {"_", "-", "a", "n", "o", "e", "N", "O", "E", "G", "H"}

\* key_value_pattern.match(line), r'^\s*([\w\-]+)\s*:\s*(.*)': the stripped
\* groups, or NoneVal.  Neither ":" nor a blank is a key character, so the
\* key is the whole run of key characters.
ParseMetaLine(line) ==
    LET body == StripLeft(line)
        e == RunEnd(body, 1, MetaKeyChars)
        rest == StripLeft(SubSeq(body, e + 1, Len(body)))
    IN  IF e >= 1 /\ Len(rest) >= 1 /\ rest[1] = ":"
        THEN [key |-> SubSeq(body, 1, e), value |-> Strip(Tail(rest))]
        ELSE NoneVal

\* lines 56-59: '' and 'none' in any case are read as None
MetaValue(value) ==
    IF value = <<>> \/ LowerText(value) = <<"n", "o", "n", "e">>
    THEN NoneVal ELSE PyStr(value)

DictSet(d, k, v) == [x \in DOMAIN d \cup {k} |-> IF x = k THEN v ELSE d[x]]
\* dict.get(k)
DictGet(d, k) == IF k \in DOMAIN d THEN d[k] ELSE NoneVal
EmptyDict == <<>>

RECURSIVE ReadMetaLines(_, _)
ReadMetaLines(lines, data) ==
    IF Len(lines) = 0 THEN data
    ELSE LET m == ParseMetaLine(Head(lines))
         IN  ReadMetaLines(Tail(lines),
                 IF m = NoneVal THEN data ELSE DictSet(data, m.key, MetaValue(m.value)))

\* read_meta_file of a directory whose !meta.txt holds `file` (NoneVal: none)
ReadMetaFile(file) ==
    IF file = NoneVal THEN EmptyDict
    ELSE ReadMetaLines(SplitLines(file.str), EmptyDict)

----------------------------------------------------------------------------
(* services.gogdb_client.GOGDBClient                                       *)
(* The cache artifact at db_path is NoneVal (no file) or a record: ok (an  *)
(* SQLite file with a products table), rows (search_title -> title) and    *)
(* fresh (modified within update_days).                                    *)

\* _is_valid: the products table exists and holds a row
IsValid(artifact) == artifact.ok /\ DOMAIN artifact.rows # {}

\* _is_utd: NoneVal stands for the OSError of os.path.getmtime on no file
IsUtd(file) == IF file = NoneVal THEN NoneVal ELSE [bool |-> file.fresh]

\* What the network and the disk can do to one download() call:
\*   "request_error"  requests.get or raise_for_status raises
\*   "io_error"       writing the temporary file fails part-way
\*   "downloaded"     the temporary file holds the artifact `got`
DownloadOutcomes == {"request_error", "io_error", "downloaded"}

\* download(): the files after the call and the value returned
Download(file, temp, outcome, got) ==
    IF outcome = "request_error"
    THEN [file |-> file, temp |-> temp, ok |-> FALSE]
    ELSE IF outcome = "io_error"
    THEN [file |-> file, temp |-> TRUE, ok |-> FALSE]
    ELSE IF IsValid(got)
    THEN [file |-> [ok |-> got.ok, rows |-> got.rows, fresh |-> TRUE], temp |-> FALSE, ok |-> TRUE]
    ELSE [file |-> file, temp |-> FALSE, ok |-> FALSE]

\* characters outside ASCII, and [\\/:*?"<>|]
NonAscii == {"é"}
IllegalInTitle == {"\\", "/", ":", "*", "?", "\"", "<", ">", "|"}

\* lines 85-86 of get_game_name
TitleToName(title) ==
    LET Keep(x) == x \notin NonAscii /\ x \notin IllegalInTitle
    IN  SelectSeq(title, Keep)

\* game_key.replace('_', '')
SearchKey(key) == LET NotUnderscore(x) == x # "_" IN SelectSeq(key, NotUnderscore)

\* get_game_name on a client: the name, or NoneVal.  query_one turns every
\* sqlite3.Error (no file, no table) into None.
GetGameName(is_available, file, key) ==
    IF ~is_available THEN NoneVal
    ELSE IF file = NoneVal \/ ~file.ok THEN NoneVal
    ELSE IF SearchKey(key) \in DOMAIN file.rows
    THEN PyStr(TitleToName(file.rows[SearchKey(key)]))
    ELSE NoneVal

\* __init__: the fields and files after construction.  `raised` tells that
\* an exception left the constructor (no client object exists then).
Construct(file, temp, auto, outcome, got) ==
    LET was_available == file # NoneVal
        first == IF was_available
                 THEN [file |-> file, temp |-> temp, ok |-> TRUE, ran |-> FALSE]
                 ELSE Download(file, temp, outcome, got) @@ [ran |-> TRUE]
        utd == IsUtd(first.file)
    IN  IF ~auto
        THEN [file |-> first.file, temp |-> first.temp, available |-> was_available,
              raised |-> FALSE, refreshed |-> first.ran, refresh_ok |-> first.ran /\ first.ok]
        ELSE IF utd = NoneVal
        THEN [file |-> first.file, temp |-> first.temp, available |-> was_available,
              raised |-> TRUE, refreshed |-> first.ran, refresh_ok |-> first.ran /\ first.ok]
        ELSE IF utd.bool
        THEN [file |-> first.file, temp |-> first.temp, available |-> was_available,
              raised |-> FALSE, refreshed |-> first.ran, refresh_ok |-> first.ran /\ first.ok]
        ELSE LET second == Download(first.file, first.temp, outcome, got)
             IN  [file |-> second.file, temp |-> second.temp, available |-> was_available,
                  raised |-> FALSE, refreshed |-> TRUE, refresh_ok |-> second.ok]

----------------------------------------------------------------------------
(* ManifestGenerator._clean_game_name, _get_game_details and its layers     *)

\* [<>:"/\\|?*]
IllegalInPath == {"<", ">", ":", "\"", "/", "\\", "|", "?", "*"}

\* re.sub(r'\s+', ' ', text).strip()
RECURSIVE CollapseSpaces(_)
CollapseSpaces(text) ==
    IF Len(text) = 0 THEN <<>>
    ELSE IF Head(text) \in Whitespace
         THEN <<" ">> \o CollapseSpaces(StripLeft(text))
    ELSE <<Head(text)>> \o CollapseSpaces(Tail(text))

\* _clean_game_name
CleanGameName(raw_name) ==
    LET spaced == [i \in 1..Len(raw_name) |->
                      IF raw_name[i] \in IllegalInPath THEN " " ELSE raw_name[i]]
    IN  Strip(CollapseSpaces(spaced))

\* `value is None`
IsNone(v) == v = NoneVal

\* `not value` of a value that is None or a str
Falsy(v) == v = NoneVal \/ v.str = <<>>

\* str.split('--'): "--" is one symbol
RECURSIVE SplitDashes(_)
SplitDashes(text) ==
    LET d == FirstIndex(text, "--")
    IN  IF d = 0 THEN <<text>>
        ELSE <<SubSeq(text, 1, d - 1)>> \o SplitDashes(SubSeq(text, d + 1, Len(text)))

\* raw_name.encode('ascii', 'ignore').decode('ascii')
AsciiOnly(text) == LET Ascii(x) == x \notin NonAscii IN SelectSeq(text, Ascii)

\* version_pattern.search(line), r'^\s*version:\s*(.*)' with re.IGNORECASE
VersionLineMatch(line) ==
    LET body == StripLeft(line)
    IN  IF Len(body) >= 1 /\ body[1] \in {"version:", "Version:"}
        THEN PyStr(Strip(Tail(body)))
        ELSE NoneVal

\* _get_game_details_from_info_file: info is NoneVal (no !info.txt) or the
\* list of its lines.  A file of fewer than two lines raises IndexError at
\* line 199, which line 213 catches: both values stay None.
GetGameDetailsFromInfoFile(info) ==
    IF info = NoneVal THEN [name |-> NoneVal, version |-> NoneVal]
    ELSE IF Len(info.list) < 2 THEN [name |-> NoneVal, version |-> NoneVal]
    ELSE LET parts == SplitDashes(Strip(info.list[2]))
             Matches(l) == VersionLineMatch(l) # NoneVal
             first == FirstWith(info.list, {i \in 1..Len(info.list) : Matches(info.list[i])})
         IN  [name |-> IF Len(parts) >= 3
                       THEN PyStr(Strip(CollapseSpaces(AsciiOnly(Strip(parts[2])))))
                       ELSE NoneVal,
              version |-> IF first = NoneVal THEN NoneVal ELSE VersionLineMatch(first.str)]

\* the ends of the matches of the key pattern in s from position pos, in the
\* order the regex engine tries them ([-_\s]+ is greedy)
RECURSIVE KeyPatternEnds(_, _, _)
RECURSIVE SeparatorRunEnds(_, _, _, _)
SeparatorRunEnds(key, s, pos, n) ==
    IF n = 0 THEN <<>>
    ELSE KeyPatternEnds(Tail(key), s, pos + n) \o SeparatorRunEnds(key, s, pos, n - 1)
KeyPatternEnds(key, s, pos) ==
    IF Len(key) = 0 THEN <<pos>>
    ELSE IF Head(key) = "_"
         THEN SeparatorRunEnds(key, s, pos, RunEnd(s, pos + 1, Separators) - pos)
    ELSE IF pos < Len(s) /\ Lower(s[pos + 1]) = Lower(Head(key))
         THEN KeyPatternEnds(Tail(key), s, pos + 1)
    ELSE <<>>

\* (?:\_\(64bit\))?\_\(\d+\)\.exe$ matches the whole of rest
BuildTailMatch(rest) ==
    LET plain(r) == /\ Len(r) >= 5
                    /\ r[1] = "_" /\ r[2] = "("
                    /\ RunEnd(r, 3, Digits) = Len(r) - 2
                    /\ r[Len(r) - 1] = ")" /\ r[Len(r)] = ".exe"
    IN  \/ plain(rest)
        \/ /\ Len(rest) >= 4
           /\ SubSeq(rest, 1, 4) = <<"_", "(", "64bit", ")">>
           /\ plain(SubSeq(rest, 5, Len(rest)))

\* str.strip('_-')
RECURSIVE StripChars(_, _)
StripChars(text, chars) ==
    IF Len(text) > 0 /\ Head(text) \in chars THEN StripChars(Tail(text), chars)
    ELSE IF Len(text) > 0 /\ text[Len(text)] \in chars
         THEN StripChars(SubSeq(text, 1, Len(text) - 1), chars)
    ELSE text

\* ver_extract_pattern.search(filename).group(1): the first key match, in the
\* engine's order, after which a shortest (.+?) leaves a build tail
VersionGroup(key, name) ==
    LET s == Tail(name)
        ends == KeyPatternEnds(key, s, 0)
        Groups(k) == {g \in (k + 1)..Len(s) : BuildTailMatch(SubSeq(s, g + 1, Len(s)))}
        Works(k) == Groups(k) # {}
        k0 == FirstWith(ends, {i \in 1..Len(ends) : Works(ends[i])})
    IN  IF Len(name) = 0 \/ Lower(name[1]) # "setup_" \/ k0 = NoneVal THEN NoneVal
        ELSE LET g0 == CHOOSE g \in Groups(k0.str) : \A h \in Groups(k0.str) : g <= h
             IN  PyStr(SubSeq(s, k0.str + 1, g0))

\* lines 234-238: the version of a match, NoneVal without one
VersionOfMatch(version_match) ==
    IF version_match = NoneVal THEN NoneVal
    ELSE PyStr(StripChars(version_match.str, {"_", "-"}))

\* lines 223-238: the version in the name of base_installer_path
VersionOfInstaller(key, base) ==
    IF base = NoneVal THEN NoneVal ELSE VersionOfMatch(VersionGroup(key, base.str))

\* _get_game_version_from_base_installer
GetGameVersionFromBaseInstaller(key, files) ==
    VersionOfInstaller(key, GetBaseInstallerPath(key, files))

\* str.title() on the symbols: a letter after a letter is lowered, any other
\* letter is capitalised
Capital(x) ==
    CASE x = "g" -> "G" [] x = "h" -> "H" [] x = "foo" -> "Foo" [] x = "old" -> "Old"
      [] x = "base" -> "Base" [] x = "game" -> "Game" [] x = "second" -> "Second"
      [] x = "the" -> "The" [] OTHER -> x
Cased == Letters \cup {"G", "H", "foo", "base", "game", "second", "the"}
TitleCase(text) ==
    [i \in 1..Len(text) |->
        IF text[i] \notin Cased THEN text[i]
        ELSE IF i > 1 /\ text[i - 1] \in Cased THEN Lower(text[i])
        ELSE Capital(Lower(text[i]))]

\* line 178: clean_key.replace('_', ' ').title().strip()
NameFromKey(key) ==
    Strip(TitleCase([i \in 1..Len(key) |-> IF key[i] = "_" THEN " " ELSE key[i]]))

\* _get_game_details: folder is [is_dir, files, info]; db is the client
GetGameDetails(stype, key, folder, db) ==
    LET from_info == IF stype = "gog-service"
                     THEN GetGameDetailsFromInfoFile(folder.info)
                     ELSE [name |-> NoneVal, version |-> NoneVal]
        version == IF Falsy(from_info.version)
                   THEN GetGameVersionFromBaseInstaller(key, folder.files)
                   ELSE from_info.version
        looked_up == IF Falsy(from_info.name)
                     THEN GetGameName(db.available, db.file, key)
                     ELSE from_info.name
        name == IF Falsy(looked_up) THEN PyStr(NameFromKey(key)) ELSE looked_up
    IN  [name |-> name, version |-> version]

----------------------------------------------------------------------------
(* ManifestGenerator.generate_manifest                                     *)
(* A path is a text.  The destination tree is a function from the paths    *)
(* that exist to what is there: kind ("dir" or "file"), entries (the       *)
(* directory holds something besides !meta.txt) and meta (the text of its  *)
(* !meta.txt, NoneVal when it has none).                                   *)

\* os.path.join(directory, name)
JoinPath(directory, name) == directory \o <<"/">> \o name

\* "D/" names the directory "D"
NormPath(path) ==
    IF Len(path) > 1 /\ path[Len(path)] = "/" THEN SubSeq(path, 1, Len(path) - 1) ELSE path

\* os.path.exists(path)
PathExists(fs, path) == NormPath(path) \in DOMAIN fs

\* what is at an existing path
PathAt(fs, path) == fs[NormPath(path)]

\* the paths below a directory
Below(fs, path) == {q \in DOMAIN fs : StartsWith(q, NormPath(path) \o <<"/">>)}

\* os.listdir(path) of an existing directory is not empty
DirNonEmpty(fs, path) ==
    PathAt(fs, path).entries \/ PathAt(fs, path).meta # NoneVal \/ Below(fs, path) # {}

\* a choice that asks the directory to hold a !meta.txt as well
RECURSIVE FirstWithMeta(_, _, _, _)
FirstWithMeta(fs, possible, folder_name, default) ==
    IF Len(possible) = 0 THEN [raised |-> FALSE, dir |-> default]
    ELSE LET possible_game_dir == JoinPath(Head(possible), folder_name)
         IN  IF ~PathExists(fs, possible_game_dir)
             THEN FirstWithMeta(fs, Tail(possible), folder_name, default)
             ELSE IF PathAt(fs, possible_game_dir).kind # "dir"
             THEN [raised |-> TRUE, dir |-> default]
             ELSE IF PathAt(fs, possible_game_dir).meta # NoneVal
             THEN [raised |-> FALSE, dir |-> possible_game_dir]
             ELSE FirstWithMeta(fs, Tail(possible), folder_name, default)

\* lines 55-60: the destination of folder_name, or raised when os.listdir
\* meets a path that is not a directory (NotADirectoryError)
RECURSIVE FirstPopulated(_, _, _, _)
FirstPopulated(fs, possible, folder_name, default) ==
    IF Len(possible) = 0 THEN [raised |-> FALSE, dir |-> default]
    ELSE LET possible_game_dir == JoinPath(Head(possible), folder_name)
         IN  IF ~PathExists(fs, possible_game_dir)
             THEN FirstPopulated(fs, Tail(possible), folder_name, default)
             ELSE IF PathAt(fs, possible_game_dir).kind # "dir"
             THEN [raised |-> TRUE, dir |-> default]
             ELSE IF DirNonEmpty(fs, possible_game_dir)
             THEN [raised |-> FALSE, dir |-> possible_game_dir]
             ELSE FirstPopulated(fs, Tail(possible), folder_name, default)

ChooseDestination(fs, default_dest_dir, possible_dest_dirs, folder_name) ==
    FirstPopulated(fs, possible_dest_dirs, folder_name, JoinPath(default_dest_dir, folder_name))

\* the game keys in the order the dict of line 94 first meets them
RECURSIVE OrderedGameKeys(_, _, _)
OrderedGameKeys(stype, kept, seen) ==
    IF Len(kept) = 0 THEN <<>>
    ELSE LET k == FolderGameKey(stype, Head(kept))
         IN  IF k \in seen THEN OrderedGameKeys(stype, Tail(kept), seen)
             ELSE <<k>> \o OrderedGameKeys(stype, Tail(kept), seen \cup {k})

\* what a source folder holds; a child that is a regular file holds nothing
FolderOf(tree, name) ==
    IF tree.folders[name].is_dir THEN tree.folders[name]
    ELSE [is_dir |-> FALSE, files |-> <<>>, info |-> NoneVal]

\* lines 52-79: the record of one game key, given its clean key, what its
\* source folder holds and the details of line 50
RecordOf(cfg, fs, only_base, game_key, source_folder_name, key, folder, details) ==
    LET folder_name == CleanGameName(details.name.str)
        dest == ChooseDestination(fs, cfg.default_destination_directory,
                                  cfg.possible_destination_directories, folder_name)
        override == DictGet(cfg.overrides, source_folder_name)
    IN  [raised |-> dest.raised,
         record |-> [game_key |-> game_key,
                     game_name |-> folder_name,
                     game_version |-> details.version,
                     source_directory |-> JoinPath(cfg.source_directory, source_folder_name),
                     destination_directory |-> dest.dir,
                     sorted_installers |->
                         IF override # NoneVal /\ Len(override.list) > 0
                         THEN override.list
                         ELSE GetSortedInstallers(key, folder.files, only_base)]]

\* lines 46-50, then the record
RecordOfFolder(cfg, fs, db, only_base, game_key, source_folder_name, key, folder) ==
    RecordOf(cfg, fs, only_base, game_key, source_folder_name, key, folder,
             GetGameDetails(cfg.source_type, key, folder, db))

\* lines 43-79: one iteration of the loop over the game keys
ManifestRecord(cfg, tree, fs, db, only_base, game_key, source_folder_name) ==
    RecordOfFolder(cfg, fs, db, only_base, game_key, source_folder_name,
                   CleanGameKey(game_key), FolderOf(tree, source_folder_name))

\* lines 43-79: the records built for the game keys, in the dict's order
ManifestRecords(cfg, tree, fs, db, only_base, keys, latest_by_key) ==
    [i \in 1..Len(keys) |->
        ManifestRecord(cfg, tree, fs, db, only_base, keys[i], latest_by_key[keys[i]])]

\* lines 81-86: the manifest is saved and returned, unless building a record
\* or save_json raised
SavedManifest(built, save_ok) ==
    IF (\E i \in 1..Len(built) : built[i].raised) \/ ~save_ok
    THEN [raised |-> TRUE, data |-> <<>>]
    ELSE [raised |-> FALSE, data |-> [i \in 1..Len(built) |-> built[i].record]]

\* generate_manifest: the records in the order of the manifest's keys, and
\* whether an exception left the method (os.listdir of line 58, or save_json
\* failing and re-raising).  tree is NoneVal when source_dir is no directory.
GenerateManifest(cfg, tree, fs, db, only_base, save_ok) ==
    IF tree = NoneVal THEN [raised |-> FALSE, data |-> <<>>]
    ELSE SavedManifest(
             ManifestRecords(cfg, tree, fs, db, only_base,
                 OrderedGameKeys(cfg.source_type, KeptFolders(cfg.ignores, tree.listing), {}),
                 LatestSourceFolderByGameKey(cfg.source_type, tree.listing, cfg.ignores)),
             save_ok)

----------------------------------------------------------------------------
(* services.innoextractor.Innoextractor.process_game                       *)

EmptyDir == [kind |-> "dir", entries |-> FALSE, meta |-> NoneVal]

\* shutil.rmtree(path)
Rmtree(fs, path) ==
    [q \in DOMAIN fs \ ({NormPath(path)} \cup Below(fs, path)) |-> fs[q]]

\* os.makedirs(path, exist_ok=True)
Makedirs(fs, path) ==
    IF PathExists(fs, path) THEN fs ELSE (NormPath(path) :> EmptyDir) @@ fs

\* What the disk and innoextract can do to one process_game call:
\*   clear_ok    shutil.rmtree / os.makedirs of lines 44-46 do not raise OSError
\*   tool        "ok", or how _extract_installer fails on installer fail_at:
\*               "nonzero" (return code), "timeout" (subprocess.TimeoutExpired)
\*   produces    the installers leave files in the destination
\*   cleanup_ok  the shutil.rmtree of line 71 works
ToolResults == {"ok", "nonzero", "timeout"}

\* lines 49-57: the first installer at which the loop raises (0: none does)
\* and what it raises there
FirstFailure(files, installers, env) ==
    LET Fails(i) == \/ ~FileExists(files, installers[i])
                    \/ (env.tool # "ok" /\ env.fail_at = i)
        failing == {i \in 1..Len(installers) : Fails(i)}
        f == IF failing = {} THEN 0 ELSE CHOOSE i \in failing : \A j \in failing : i <= j
    IN  [at |-> f,
         cause |-> IF f = 0 THEN "none"
                   ELSE IF ~FileExists(files, installers[f]) THEN "missing"
                   ELSE env.tool]

\* an except clause that lets the error leave process_game
FailExtractionRaising(fs, dest_dir, cleanup_ok, cause) ==
    [fs |-> fs, success |-> FALSE, raised |-> TRUE, cause |-> cause]

\* the except clause of lines 66-83
FailExtraction(fs, dest_dir, cleanup_ok, cause) ==
    [fs |-> IF PathExists(fs, dest_dir) /\ cleanup_ok THEN Rmtree(fs, dest_dir) ELSE fs,
     success |-> FALSE, raised |-> FALSE, cause |-> cause]

\* process_game with clear_destination=True: the destination tree after the
\* call, the value returned, and whether an exception left the method (the
\* OSError of lines 44-46, which line 66 does not catch)
ProcessGame(fs, files, dest_dir, installers, env) ==
    LET is_file == PathExists(fs, dest_dir) /\ PathAt(fs, dest_dir).kind # "dir"
        cleared == Makedirs(IF PathExists(fs, dest_dir) THEN Rmtree(fs, dest_dir) ELSE fs, dest_dir)
        failure == FirstFailure(files, installers, env)
        \* the installers that ran before the failure left their files
        ran == IF failure.at = 0 THEN Len(installers) ELSE failure.at - 1
        filled == [cleared EXCEPT ![NormPath(dest_dir)].entries = env.produces /\ ran > 0]
    IN  IF is_file \/ ~env.clear_ok
        THEN [fs |-> fs, success |-> FALSE, raised |-> TRUE, cause |-> "os_error"]
        ELSE IF failure.at # 0
        THEN FailExtraction(filled, dest_dir, env.cleanup_ok, failure.cause)
        ELSE IF ~DirNonEmpty(filled, dest_dir)
        THEN FailExtraction(filled, dest_dir, env.cleanup_ok, "empty")
        ELSE [fs |-> filled, success |-> TRUE, raised |-> FALSE, cause |-> "none"]

----------------------------------------------------------------------------
(* unpack.main: one iteration of the game loop                             *)

\* the source folder a record's source_directory names
SourceFolderAt(sfs, path) ==
    LET listed == UNION { {<<d, n>> : n \in DOMAIN sfs[d].folders} :
                            d \in {x \in DOMAIN sfs : sfs[x] # NoneVal} }
        hits == {dn \in listed : JoinPath(dn[1], dn[2]) = path}
    IN  IF hits = {}
        THEN [is_dir |-> FALSE, files |-> <<>>, info |-> NoneVal, gog_info |-> FALSE]
        ELSE LET dn == CHOOSE x \in hits : TRUE IN sfs[dn[1]].folders[dn[2]]

\* read_meta_file(target_dir) looks at target_dir/!meta.txt
MetaFileAt(fs, path) ==
    IF PathExists(fs, path) /\ PathAt(fs, path).kind = "dir" THEN PathAt(fs, path).meta ELSE NoneVal

\* lines 117-120: the destination's memo matches the manifest record
MemoMatches(existing, game) ==
    /\ DictGet(existing, <<"source_directory">>) = PyStr(game.source_directory)
    /\ DictGet(existing, <<"game_version">>) = game.game_version

\* lines 114-115: the memo is read when the destination exists and --force
\* is not given
UpToDate(fs, game, force) ==
    /\ PathExists(fs, game.destination_directory)
    /\ ~force
    /\ MemoMatches(ReadMetaFile(MetaFileAt(fs, game.destination_directory)), game)

\* get_game_details_from_gog_info_file on the extracted files
GogInfoName == <<"G", " ", "2">>
GogInfoLauncher == <<"g", ".exe">>
GameDetailsFromGogInfoFile(folder) ==
    IF folder.gog_info
    THEN [name |-> PyStr(GogInfoName), launcher |-> PyStr(GogInfoLauncher)]
    ELSE [name |-> NoneVal, launcher |-> NoneVal]

\* lines 141-147
MetaData(game, info) ==
    (<<"game_name">> :> (IF Falsy(info.name) THEN PyStr(game.game_name) ELSE info.name))
    @@ (<<"game_version">> :> (IF Falsy(game.game_version) THEN PyStr(<<>>) ELSE game.game_version))
    @@ (<<"rel_launcher_path">> :> info.launcher)
    @@ (<<"source_directory">> :> PyStr(game.source_directory))
    @@ (<<"sorted_installers">> :> PyList(game.sorted_installers))

\* create_meta_file(game_dest_dir, meta_data); an IOError is logged
CreateMetaFile(fs, dest_dir, data, io_ok) ==
    IF io_ok THEN [fs EXCEPT ![NormPath(dest_dir)].meta = PyStr(MetaContent(data))] ELSE fs

\* the entry of lines 73-79, without its timestamp
FailureEntry(game) ==
    [game_name |-> game.game_name, source_dir |-> game.source_directory,
     dest_dir |-> game.destination_directory, installers |-> game.sorted_installers]

\* What the disk and the tool do during one iteration, and how many things
\* go wrong in it
Envs(n) ==
    {e \in [clear_ok : BOOLEAN, tool : ToolResults, fail_at : 0..n, produces : BOOLEAN,
            cleanup_ok : BOOLEAN] : (e.tool = "ok") = (e.fail_at = 0)}
Cost(b) == IF b THEN 0 ELSE 1
EnvFaults(e) ==
    Cost(e.clear_ok) + Cost(e.tool = "ok") + Cost(e.produces) + Cost(e.cleanup_ok)
MaxFaults == 1

----------------------------------------------------------------------------
(* Inputs and bounds *)

\* Raw keys: up to MaxKeyWords words joined by "_" (a word may be empty).
MaxKeyWords == 4
KeyWords == {"foo", "base", "game", "second", "the"}

RECURSIVE JoinWords(_)
JoinWords(ws) ==
    IF Len(ws) = 0 THEN <<>>
    ELSE IF Len(ws) = 1 THEN ws[1]
    ELSE ws[1] \o <<"_">> \o JoinWords(Tail(ws))

RawKeys ==
    { JoinWords(ws) :
        ws \in UNION { [1..n -> {<<w>> : w \in KeyWords} \cup {<<>>}] : n \in 1..MaxKeyWords } }
        \ {<<>>}

\* Folder names of the scanned directory.
G == <<"g">>
FolderNames ==
    { G,                                            \* g
      <<"g", Marker, "1", ".", "0", ")">>,          \* g_windows_gog_(1.0)
      <<"g", Marker, "1", ".", "2", ")">>,          \* g_windows_gog_(1.2)
      <<"g", Marker, "2", ")">>,                    \* g_windows_gog_(2)
      <<"g", Marker, ".", ")">>,                    \* g_windows_gog_(.)
      <<"g", Marker, "1", ".", "0", ")", "_", "old">>,
      <<"g", Marker, "1", ".", "0">>,               \* no closing bracket
      <<"h", Marker, "1", ")">>,                    \* h_windows_gog_(1)
      <<"h", "_", "old">> }
IgnorePatterns == { <<"*", "_", "old">> }
SourceTypes == {"gog-games", "gog-service", "other"}
MaxFolders == 3

\* os.listdir: the names of a directory, each once, in some order
Listings(names, n) ==
    UNION { {s \in [1..m -> names] : \A i, j \in 1..m : i # j => s[i] # s[j]} : m \in 0..n }

\* File names of a game folder.
SetupG == <<"setup_", "g", ".exe">>
SetupGDlc == <<"setup_", "g", "_", "1", ".exe">>
SetupH == <<"setup_", "h", ".exe">>
SetupHLong == <<"setup_", "h", "-", "1", "_", "2", ".exe">>
SetupUpper == <<"setup_", "G", "-", "1", ".exe">>
FileNames ==
    { SetupG, SetupGDlc, SetupH, SetupHLong, SetupUpper,
      CompanionBin(SetupG), CompanionBin(SetupGDlc), CompanionBin(SetupHLong),
      <<"!info.txt">>, <<"setup_", "g", ".bin">> }
InstallerKeys == { <<"g">>, <<"g", "_", "1">>, <<"h">>, <<>> }
MaxFiles == 3

\* Values of a destination's metadata.
NoneText == <<"n", "o", "n", "e">>
GameNames == { PyStr(<<"G">>), PyStr(<<"G", " ", "1">>) }
GameVersions ==
    { PyStr(<<>>), PyStr(<<"1", ".", "0">>), PyStr(NoneText), PyStr(<<"N", "O", "N", "E">>),
      PyStr(<<"1", ".", "0", " ">>), PyStr(<<"1", ":", "0">>) }
LauncherPaths == { NoneVal, PyStr(<<"g", ".exe">>) }
SourceDirs == { PyStr(<<"/", "src", "/", "g">>), PyStr(<<"/", "src", "/", "g", " ">>) }
InstallerLists == { PyList(<< >>), PyList(<<SetupG>>), PyList(<<SetupG, SetupGDlc>>) }
MetaRecords ==
    { (<<"game_name">> :> n) @@ (<<"game_version">> :> v) @@ (<<"rel_launcher_path">> :> l)
        @@ (<<"source_directory">> :> d) @@ (<<"sorted_installers">> :> i) :
        n \in GameNames, v \in GameVersions, l \in LauncherPaths,
        d \in SourceDirs, i \in InstallerLists }

\* Cache artifacts and the keys looked up.
H == <<"h">>
TitleRows ==
    { EmptyDict,
      G :> <<"G", " ", "1">>,
      (G :> <<"G", ":", " ", "é", "1">>) @@ (H :> <<"H">>) }
Artifacts ==
    { [ok |-> TRUE, rows |-> r] : r \in TitleRows } \cup { [ok |-> FALSE, rows |-> EmptyDict] }
DbFiles ==
    { NoneVal } \cup
    { [ok |-> a.ok, rows |-> a.rows, fresh |-> f] : a \in Artifacts, f \in BOOLEAN }
LookupKeys == { G, H, <<"g", "_", "1">> }
MaxLookups == 2

\* The source folders a scan can meet: each name always holds the same.
FolderG == G
FolderGVersioned == <<"g", Marker, "1", ".", "0", ")">>
FolderH == H
FolderHOld == <<"h", "_", "old">>
SetupGBuild == <<"setup_", "g", "_", "1", ".", "0", "_", "(", "1", ")", ".exe">>
SetupHNone == <<"setup_", "h", "_", "n", "o", "n", "e", "_", "(", "1", ")", ".exe">>
FolderOld == <<"old">>
FolderFoo == <<"foo">>
FolderFooBaseGame == <<"foo", "_", "base", "_", "game">>
FolderBaseGame == <<"_", "base", "_", "game">>
SetupFoo == <<"setup_", "foo", ".exe">>
InfoOfH ==
    PyList(<< <<"x">>, <<"--", " ", "H", ":", "é", " ", "--", " ", "x">>, <<"version:", " ", "2">> >>)
SourceFolder(name) ==
    CASE name = FolderG ->
             [is_dir |-> TRUE, files |-> <<SetupG>>, info |-> NoneVal, gog_info |-> TRUE]
      [] name = FolderGVersioned ->
             [is_dir |-> TRUE, files |-> <<SetupH, SetupGBuild, CompanionBin(SetupGBuild)>>,
              info |-> NoneVal, gog_info |-> FALSE]
      [] name = FolderH ->
             [is_dir |-> TRUE, files |-> <<SetupHNone, <<"!info.txt">> >>, info |-> InfoOfH,
              gog_info |-> FALSE]
      [] name = FolderOld ->
             [is_dir |-> TRUE, files |-> <<>>, info |-> NoneVal, gog_info |-> FALSE]
      [] name \in {FolderFoo, FolderFooBaseGame, FolderBaseGame} ->
             [is_dir |-> TRUE, files |-> <<SetupFoo>>, info |-> NoneVal, gog_info |-> FALSE]
      [] OTHER ->
             [is_dir |-> FALSE, files |-> <<>>, info |-> NoneVal, gog_info |-> FALSE]
ManifestFolders == { FolderG, FolderGVersioned, FolderH, FolderHOld }
\* folders whose names carry the qualifiers _clean_game_key removes
QualifiedFolders == { FolderFoo, FolderFooBaseGame, FolderBaseGame }
MaxManifestFolders == 2

\* a source directory with the given listing
SourceTree(ls) ==
    [listing |-> ls, folders |-> [n \in {ls[i] : i \in 1..Len(ls)} |-> SourceFolder(n)]]

S1 == <<"S1">>
S2 == <<"S2">>
D1 == <<"D1">>
D2 == <<"D2">>
D3 == <<"D3">>
Overrides == { EmptyDict, FolderG :> PyList(<<SetupH>>), FolderG :> PyList(<< >>) }
PossibleDestDirs == { <<>>, <<D2, D3>>, <<D3, D2>> }

\* the lookup client: without an artifact, or with one that knows g
DbClients ==
    { [available |-> FALSE, file |-> NoneVal],
      [available |-> TRUE, file |-> [ok |-> TRUE, rows |-> G :> <<"G">>, fresh |-> TRUE]] }

\* what a destination path can hold before a run
MetaOfOtherGame ==
    PyStr(MetaLine(<<"source_directory">>, PyStr(<<"x">>)) \o MetaLine(<<"game_version">>, PyStr(<<"9">>)))
Populated == [kind |-> "dir", entries |-> TRUE, meta |-> NoneVal]
OnlyMeta == [kind |-> "dir", entries |-> FALSE, meta |-> MetaOfOtherGame]
RegularFile == [kind |-> "file", entries |-> FALSE, meta |-> NoneVal]
Roots == (D1 :> EmptyDir) @@ (D2 :> EmptyDir) @@ (D3 :> EmptyDir)
DestTrees ==
    { d2 @@ d3 @@ Roots :
        d2 \in { <<>> } \cup { JoinPath(D2, <<"G">>) :> x :
                                  x \in {EmptyDir, OnlyMeta, RegularFile} },
        d3 \in { <<>>, JoinPath(D3, <<"G">>) :> Populated } }

\* the configuration files of a session and its command lines
ConfigA(stype, ovr) ==
    [key |-> "c1", source_type |-> stype, source_directory |-> S1,
     default_destination_directory |-> D1, possible_destination_directories |-> <<>>,
     ignores |-> {}, overrides |-> ovr]
ConfigB ==
    [key |-> "c2", source_type |-> "other", source_directory |-> S2,
     default_destination_directory |-> D2, possible_destination_directories |-> <<>>,
     ignores |-> {}, overrides |-> EmptyDict]
FirstConfigs ==
    { ConfigA("other", EmptyDict), ConfigA("other", FolderG :> PyList(<<SetupH>>)),
      ConfigA("gog-games", EmptyDict) }
ConfigFiles == { <<a>> : a \in FirstConfigs } \cup { <<a, ConfigB>> : a \in FirstConfigs }
CommandLines ==
    { [config |-> c, game |-> g, force |-> FALSE, base_installer_only |-> FALSE] :
        c \in {NoneVal}, g \in {NoneVal, PyStr(G)} }
    \cup { [config |-> c, game |-> NoneVal, force |-> FALSE, base_installer_only |-> FALSE] :
             c \in {PyStr("c2"), PyStr("c9")} }
RunFolders == { FolderG, FolderGVersioned, FolderH, FolderOld }
MaxRunFolders == 2

----------------------------------------------------------------------------
(* Each part of the program is checked on its own: the state of the parts a
   specification does not run stays at these values. *)

CleanOff ==
    /\ raw_key = <<>>
    /\ clean_key = <<>>
    /\ reclean_key = <<>>
    /\ cpc = "off"

GroupOff ==
    /\ source_type = "off"
    /\ listing = <<>>
    /\ ignores = {}
    /\ latest = <<>>
    /\ gpc = "off"

InstOff ==
    /\ inst_key = <<>>
    /\ folder_files = <<>>
    /\ base_only = FALSE
    /\ base_installer = NoneVal
    /\ sorted_installers = <<>>
    /\ ipc = "off"

MetaOff ==
    /\ meta_data = EmptyDict
    /\ meta_file = NoneVal
    /\ existing_meta = EmptyDict
    /\ mpc = "off"

DbOff ==
    /\ db_file = NoneVal
    /\ temp_file = FALSE
    /\ auto_update = FALSE
    /\ available = FALSE
    /\ client = "off"
    /\ refresh = "none"
    /\ db_prior = NoneVal
    /\ lookups = <<>>

DetailOff ==
    /\ details_of = NoneVal
    /\ game_name = NoneVal
    /\ game_version = NoneVal
    /\ consulted = <<>>
    /\ dpc = "off"

RunOff ==
    /\ args = NoneVal
    /\ config = <<>>
    /\ configs = <<>>
    /\ source_fs = <<>>
    /\ dest_fs = <<>>
    /\ gogdb = NoneVal
    /\ manifest_data = <<>>
    /\ games_to_process = <<>>
    /\ pc = "off"
    /\ config_idx = 0
    /\ game_idx = 0
    /\ total_games = 0
    /\ successful_games = 0
    /\ failed_extractions = <<>>
    /\ rerun = FALSE
    /\ memo = {}
    /\ last = NoneVal
    /\ faults = 0

----------------------------------------------------------------------------
(* _clean_game_key, applied once and again *)

CleanStart ==
    /\ raw_key \in RawKeys
    /\ clean_key = <<>>
    /\ reclean_key = <<>>
    /\ cpc = "raw"

\* generate_manifest line 46: clean_key = self._clean_game_key(game_key)
CleanOnce ==
    /\ cpc = "raw"
    /\ clean_key' = CleanGameKey(raw_key)
    /\ cpc' = "cleaned"
    /\ UNCHANGED <<raw_key, reclean_key, notCleanVars>>

\* the function applied to its own result
CleanAgain ==
    /\ cpc = "cleaned"
    /\ reclean_key' = CleanGameKey(clean_key)
    /\ cpc' = "recleaned"
    /\ UNCHANGED <<raw_key, clean_key, notCleanVars>>

CleanNext == CleanOnce \/ CleanAgain

CleanInit == CleanStart /\ GroupOff /\ InstOff /\ MetaOff /\ DbOff /\ DetailOff /\ RunOff

SpecClean == CleanInit /\ [][CleanNext]_vars

----------------------------------------------------------------------------
(* The scan of one source directory *)

GroupStart ==
    /\ source_type \in SourceTypes
    /\ listing \in Listings(FolderNames, MaxFolders)
    /\ ignores \in SUBSET IgnorePatterns
    /\ latest = <<>>
    /\ gpc = "scan"

GroupFolders ==
    /\ gpc = "scan"
    /\ latest' = LatestSourceFolderByGameKey(source_type, listing, ignores)
    /\ gpc' = "grouped"
    /\ UNCHANGED <<source_type, listing, ignores, notGroupVars>>

GroupNext == GroupFolders

GroupInit == GroupStart /\ CleanOff /\ InstOff /\ MetaOff /\ DbOff /\ DetailOff /\ RunOff

SpecGroup == GroupInit /\ [][GroupNext]_vars

----------------------------------------------------------------------------
(* The installers of one game folder *)

InstStart ==
    /\ inst_key \in InstallerKeys
    /\ folder_files \in Listings(FileNames, MaxFiles)
    /\ base_only \in BOOLEAN
    /\ base_installer = NoneVal
    /\ sorted_installers = <<>>
    /\ ipc = "folder"

\* _get_game_version_from_base_installer line 222: the base installer alone
FindBaseInstaller ==
    /\ ipc = "folder"
    /\ base_installer' = GetBaseInstallerPath(inst_key, folder_files)
    /\ ipc' = "based"
    /\ UNCHANGED <<inst_key, folder_files, base_only, sorted_installers, notInstVars>>

\* _get_sorted_installers
SortInstallers ==
    /\ ipc \in {"folder", "based"}
    /\ base_installer' = GetBaseInstallerPath(inst_key, folder_files)
    /\ sorted_installers' = GetSortedInstallers(inst_key, folder_files, base_only)
    /\ ipc' = "sorted"
    /\ UNCHANGED <<inst_key, folder_files, base_only, notInstVars>>

InstNext == FindBaseInstaller \/ SortInstallers

InstInit == InstStart /\ CleanOff /\ GroupOff /\ MetaOff /\ DbOff /\ DetailOff /\ RunOff

SpecInst == InstInit /\ [][InstNext]_vars

----------------------------------------------------------------------------
(* A metadata record written and read back *)

MetaStart ==
    /\ meta_data \in MetaRecords
    /\ meta_file = NoneVal
    /\ existing_meta = EmptyDict
    /\ mpc = "record"

\* create_meta_file: the text is written, or open() fails and nothing is
WriteMeta ==
    /\ mpc = "record"
    /\ \E io_ok \in BOOLEAN :
           /\ meta_file' = IF io_ok THEN PyStr(MetaContent(meta_data)) ELSE meta_file
           /\ mpc' = IF io_ok THEN "written" ELSE "failed"
    /\ UNCHANGED <<meta_data, existing_meta, notMetaVars>>

\* read_meta_file
ReadMeta ==
    /\ mpc \in {"written", "failed"}
    /\ existing_meta' = ReadMetaFile(meta_file)
    /\ mpc' = IF mpc = "written" THEN "read" ELSE "read_nothing"
    /\ UNCHANGED <<meta_data, meta_file, notMetaVars>>

MetaNext == WriteMeta \/ ReadMeta

MetaInit == MetaStart /\ CleanOff /\ GroupOff /\ InstOff /\ DbOff /\ DetailOff /\ RunOff

SpecMeta == MetaInit /\ [][MetaNext]_vars

----------------------------------------------------------------------------
(* The GOGDB client: construction, then lookups *)

DbStart ==
    /\ db_file \in DbFiles
    /\ temp_file = FALSE
    /\ auto_update \in BOOLEAN
    /\ available = FALSE
    /\ client = "new"
    /\ refresh = "none"
    /\ db_prior = NoneVal
    /\ lookups = <<>>

\* GOGDBClient(db_path, auto_update): db_prior and refresh record what the
\* artifact was before and how the refresh, if one ran, ended
ConstructClient ==
    /\ client = "new"
    /\ \E outcome \in DownloadOutcomes, got \in Artifacts :
           LET c == Construct(db_file, temp_file, auto_update, outcome, got)
           IN  /\ db_file' = c.file
               /\ temp_file' = c.temp
               /\ available' = c.available
               /\ client' = IF c.raised THEN "raised" ELSE "constructed"
               /\ refresh' = IF ~c.refreshed THEN "none"
                             ELSE IF c.refresh_ok THEN "ok" ELSE "failed"
    /\ db_prior' = db_file
    /\ UNCHANGED <<auto_update, lookups, notDbVars>>

\* get_game_name(game_key) on the constructed client
LookupName ==
    /\ client = "constructed"
    /\ Len(lookups) < MaxLookups
    /\ \E key \in LookupKeys :
           lookups' = Append(lookups, [key |-> key, name |-> GetGameName(available, db_file, key)])
    /\ UNCHANGED <<db_file, temp_file, auto_update, available, client, refresh, db_prior,
                   notDbVars>>

DbNext == ConstructClient \/ LookupName

DbInit == DbStart /\ CleanOff /\ GroupOff /\ InstOff /\ MetaOff /\ DetailOff /\ RunOff

SpecDb == DbInit /\ [][DbNext]_vars

----------------------------------------------------------------------------
(* ManifestGenerator._get_game_details, one layer at a time                *)

\* !info.txt files: the one of h, one line only, a second line without a
\* name, a name and a version that come out empty, a name without a version
\* line, and an empty file
InfoOneLine == PyList(<< <<"version:", " ", "1", ".", "0">> >>)
InfoNoName == PyList(<< <<"x">>, <<"x">>, <<" ", "Version:", " ", "2", " ">> >>)
InfoEmptyValues == PyList(<< <<"x">>, <<"--", "é", "--">>, <<"version:">> >>)
InfoNoVersion == PyList(<< <<"x">>, <<"--", " ", "H", " ", "--">> >>)
InfoFiles ==
    { NoneVal, InfoOfH, InfoOneLine, InfoNoName, InfoEmptyValues, InfoNoVersion, PyList(<< >>) }
SetupGBlank == <<"setup_", "g", "_", "-", "_", "(", "1", ")", ".exe">>
DetailFiles ==
    { << >>, <<SetupG>>, <<SetupGBuild, CompanionBin(SetupGBuild)>>, <<SetupHNone>>,
      <<SetupGBlank>> }
DetailDbs ==
    DbClients \cup
    { [available |-> TRUE,
       file |-> [ok |-> TRUE, rows |-> (G :> <<":">>) @@ (H :> <<"H", "2">>), fresh |-> TRUE]] }

\* lines 161-162
DetailStart ==
    /\ details_of \in [source_type : {"gog-games", "gog-service"}, clean_key : {G, H},
                       files : DetailFiles, info : InfoFiles, db : DetailDbs]
    /\ game_name = NoneVal
    /\ game_version = NoneVal
    /\ consulted = << >>
    /\ dpc = "info"

\* lines 165-166
InfoLayer ==
    /\ dpc = "info"
    /\ IF details_of.source_type = "gog-service"
       THEN \E d \in {GetGameDetailsFromInfoFile(details_of.info)} :
                /\ game_name' = d.name
                /\ game_version' = d.version
                /\ consulted' = Append(consulted, "info")
       ELSE UNCHANGED <<game_name, game_version, consulted>>
    /\ dpc' = "version"
    /\ UNCHANGED <<details_of, notDetailVars>>

\* lines 169-170
InstallerLayer ==
    /\ dpc = "version"
    /\ IF Falsy(game_version)
       THEN /\ game_version' =
                   GetGameVersionFromBaseInstaller(details_of.clean_key, details_of.files)
            /\ consulted' = Append(consulted, "installer")
       ELSE UNCHANGED <<game_version, consulted>>
    /\ dpc' = "lookup"
    /\ UNCHANGED <<details_of, game_name, notDetailVars>>

\* lines 173-174
LookupLayer ==
    /\ dpc = "lookup"
    /\ IF Falsy(game_name)
       THEN /\ game_name' = GetGameName(details_of.db.available, details_of.db.file,
                                        details_of.clean_key)
            /\ consulted' = Append(consulted, "gogdb")
       ELSE UNCHANGED <<game_name, consulted>>
    /\ dpc' = "key"
    /\ UNCHANGED <<details_of, game_version, notDetailVars>>

\* lines 177-181
KeyLayer ==
    /\ dpc = "key"
    /\ game_name' = IF Falsy(game_name) THEN PyStr(NameFromKey(details_of.clean_key))
                    ELSE game_name
    /\ dpc' = "done"
    /\ UNCHANGED <<details_of, game_version, consulted, notDetailVars>>

DetailNext == InfoLayer \/ InstallerLayer \/ LookupLayer \/ KeyLayer

DetailInit ==
    DetailStart /\ CleanOff /\ GroupOff /\ InstOff /\ MetaOff /\ DbOff /\ RunOff

SpecDetails == DetailInit /\ [][DetailNext]_vars

----------------------------------------------------------------------------
(* One call of generate_manifest *)

ManifestStart ==
    /\ args \in [config : {NoneVal}, game : {NoneVal}, force : {FALSE},
                 base_installer_only : BOOLEAN]
    /\ \E stype \in {"gog-games", "gog-service"}, possible \in PossibleDestDirs,
          igs \in {{}, IgnorePatterns}, ovr \in Overrides :
           configs = << [key |-> "c1", source_type |-> stype, source_directory |-> S1,
                         default_destination_directory |-> D1,
                         possible_destination_directories |-> possible,
                         ignores |-> igs, overrides |-> ovr] >>
    /\ source_fs \in { S1 :> SourceTree(ls) :
                          ls \in Listings(ManifestFolders, MaxManifestFolders)
                                 \cup Listings(QualifiedFolders, MaxManifestFolders) }
                     \cup { S1 :> NoneVal }
    /\ config = configs
    /\ dest_fs \in DestTrees
    /\ gogdb \in DbClients
    /\ manifest_data = <<>>
    /\ games_to_process = <<>>
    /\ pc = "generate"
    /\ config_idx = 1
    /\ game_idx = 0
    /\ total_games = 0
    /\ successful_games = 0
    /\ failed_extractions = <<>>
    /\ rerun = FALSE
    /\ memo = {}
    /\ last = NoneVal
    /\ faults = 0

\* manifest_generator.generate_manifest(...) for the config
GenerateManifestCall ==
    /\ pc = "generate"
    /\ \E save_ok \in BOOLEAN :
       \E m \in {GenerateManifest(configs[config_idx],
                                  source_fs[configs[config_idx].source_directory],
                                  dest_fs, gogdb, args.base_installer_only, save_ok)} :
               /\ manifest_data' = m.data
               /\ pc' = IF m.raised THEN "raised" ELSE "generated"
               /\ faults' = IF save_ok THEN faults ELSE faults + 1
    /\ UNCHANGED <<args, config, configs, source_fs, dest_fs, gogdb, games_to_process, config_idx,
                   game_idx, total_games, successful_games, failed_extractions, rerun, memo,
                   last, notRunVars>>

ManifestNext == GenerateManifestCall

ManifestInit == ManifestStart /\ CleanOff /\ GroupOff /\ InstOff /\ MetaOff /\ DbOff /\ DetailOff

SpecManifest == ManifestInit /\ [][ManifestNext]_vars

----------------------------------------------------------------------------
(* unpack.main, run and run again over the same source and destination *)

RunStart ==
    /\ args \in CommandLines
    /\ config \in ConfigFiles
    /\ configs = <<>>
    /\ \E ls \in Listings(RunFolders, MaxRunFolders) :
           source_fs = (S1 :> SourceTree(ls)) @@ (S2 :> SourceTree(<<FolderH>>))
    /\ dest_fs = Roots
    /\ gogdb = [available |-> FALSE, file |-> NoneVal]
    /\ manifest_data = <<>>
    /\ games_to_process = <<>>
    /\ pc = "start"
    /\ config_idx = 0
    /\ game_idx = 0
    /\ total_games = 0
    /\ successful_games = 0
    /\ failed_extractions = <<>>
    /\ rerun = FALSE
    /\ memo = {}
    /\ last = NoneVal
    /\ faults = 0

\* lines 56-64: the configs of the run
Begin ==
    /\ pc = "start"
    /\ LET named == {i \in 1..Len(config) : args.config # NoneVal /\ config[i].key = args.config.str}
       IN  IF args.config = NoneVal
           THEN configs' = config /\ pc' = "config"
           ELSE IF named # {}
           THEN configs' = <<config[CHOOSE i \in named : TRUE]>> /\ pc' = "config"
           ELSE configs' = <<>> /\ pc' = "done"
    /\ config_idx' = 1
    /\ total_games' = 0
    /\ successful_games' = 0
    /\ UNCHANGED <<args, config, source_fs, dest_fs, gogdb, manifest_data, games_to_process,
                   game_idx, failed_extractions, rerun, memo, last, faults, notRunVars>>

\* lines 69-97: the manifest of the next config and the games to process
StartConfig ==
    /\ pc = "config"
    /\ config_idx <= Len(configs)
    /\ \E save_ok \in BOOLEAN :
       \E m \in {GenerateManifest(configs[config_idx],
                                  source_fs[configs[config_idx].source_directory],
                                  dest_fs, gogdb, args.base_installer_only, save_ok)} :
           LET asked == {i \in 1..Len(m.data) :
                            args.game # NoneVal /\ m.data[i].game_key = args.game.str}
           IN  /\ faults + Cost(save_ok) <= MaxFaults
               /\ faults' = faults + Cost(save_ok)
               /\ manifest_data' = m.data
               /\ IF m.raised
                  THEN pc' = "raised" /\ UNCHANGED <<games_to_process, game_idx, config_idx>>
                  ELSE IF args.game = NoneVal
                  THEN /\ games_to_process' = m.data
                       /\ game_idx' = 1
                       /\ pc' = "game"
                       /\ UNCHANGED config_idx
                  ELSE IF asked # {}
                  THEN /\ games_to_process' = <<m.data[CHOOSE i \in asked : TRUE]>>
                       /\ game_idx' = 1
                       /\ pc' = "game"
                       /\ UNCHANGED config_idx
                  ELSE /\ games_to_process' = m.data
                       /\ config_idx' = config_idx + 1
                       /\ pc' = "config"
                       /\ UNCHANGED game_idx
    /\ UNCHANGED <<args, config, configs, source_fs, dest_fs, gogdb, total_games,
                   successful_games, failed_extractions, rerun, memo, last, notRunVars>>

\* what `last` remembers of the iteration just made
Handled(game, outcome, cause) ==
    [config |-> configs[config_idx].key, game_key |-> game.game_key,
     source_directory |-> game.source_directory, game_version |-> game.game_version,
     destination_directory |-> game.destination_directory, outcome |-> outcome, cause |-> cause]

\* a loop that skips no game
SkipsNothing(game) == FALSE

\* lines 106-108: `not game_data.get('sorted_installers')`
SkipsGame(game) == game.sorted_installers = <<>>

\* lines 99-148: one iteration of the game loop
HandleGame ==
    /\ pc = "game"
    /\ game_idx <= Len(games_to_process)
    /\ LET game == games_to_process[game_idx]
           dest == game.destination_directory
           folder == SourceFolderAt(source_fs, game.source_directory)
       IN  IF SkipsGame(game)
           THEN /\ last' = Handled(game, "no_installers", "none")
                /\ game_idx' = game_idx + 1
                /\ UNCHANGED <<pc, total_games, successful_games, dest_fs, failed_extractions,
                               memo, faults>>
           ELSE IF UpToDate(dest_fs, game, args.force)
           THEN /\ last' = Handled(game, "up_to_date", "none")
                /\ game_idx' = game_idx + 1
                /\ total_games' = total_games + 1
                /\ successful_games' = successful_games + 1
                /\ UNCHANGED <<pc, dest_fs, failed_extractions, memo, faults>>
           ELSE \E env \in Envs(Len(game.sorted_installers)), io_ok \in BOOLEAN :
                \E r \in {ProcessGame(dest_fs, folder.files, dest, game.sorted_installers, env)} :
                    LET info == GameDetailsFromGogInfoFile(folder)
                        spent == EnvFaults(env) + Cost(io_ok)
                    IN  /\ faults + spent <= MaxFaults
                        /\ faults' = faults + spent
                        /\ total_games' = total_games + 1
                        /\ IF r.raised
                           THEN /\ pc' = "raised"
                                /\ last' = Handled(game, "raised", r.cause)
                                /\ dest_fs' = r.fs
                                /\ UNCHANGED <<game_idx, successful_games, failed_extractions, memo>>
                           ELSE IF r.success
                           THEN /\ last' = Handled(game, "extracted", "none")
                                /\ successful_games' = successful_games + 1
                                /\ dest_fs' = CreateMetaFile(r.fs, dest, MetaData(game, info), io_ok)
                                /\ memo' = IF io_ok /\ ~rerun
                                           THEN memo \cup {[config |-> configs[config_idx].key,
                                                            game_key |-> game.game_key,
                                                            source_directory |-> game.source_directory,
                                                            game_version |-> game.game_version]}
                                           ELSE memo
                                /\ game_idx' = game_idx + 1
                                /\ UNCHANGED <<pc, failed_extractions>>
                           ELSE /\ last' = Handled(game, "failed", r.cause)
                                /\ failed_extractions' = Append(failed_extractions, FailureEntry(game))
                                /\ dest_fs' = r.fs
                                /\ game_idx' = game_idx + 1
                                /\ UNCHANGED <<pc, successful_games, memo>>
    /\ UNCHANGED <<args, config, configs, source_fs, gogdb, manifest_data, games_to_process,
                   config_idx, rerun, notRunVars>>

\* the game loop is over: the next config
EndConfig ==
    /\ pc = "game"
    /\ game_idx > Len(games_to_process)
    /\ config_idx' = config_idx + 1
    /\ pc' = "config"
    /\ UNCHANGED <<args, config, configs, source_fs, dest_fs, gogdb, manifest_data,
                   games_to_process, game_idx, total_games, successful_games,
                   failed_extractions, rerun, memo, last, faults, notRunVars>>

\* lines 150-152: the config loop is over
Finish ==
    /\ pc = "config"
    /\ config_idx > Len(configs)
    /\ pc' = "done"
    /\ UNCHANGED <<args, config, configs, source_fs, dest_fs, gogdb, manifest_data,
                   games_to_process, config_idx, game_idx, total_games, successful_games,
                   failed_extractions, rerun, memo, last, faults, notRunVars>>

\* the program is started again, with or without --force, on what the
\* first run left
RunAgain ==
    /\ pc \in {"done", "raised"}
    /\ ~rerun
    /\ rerun' = TRUE
    /\ \E force \in BOOLEAN : args' = [args EXCEPT !.force = force]
    /\ pc' = "start"
    /\ configs' = <<>>
    /\ manifest_data' = <<>>
    /\ games_to_process' = <<>>
    /\ config_idx' = 0
    /\ game_idx' = 0
    /\ total_games' = 0
    /\ successful_games' = 0
    /\ failed_extractions' = <<>>
    /\ last' = NoneVal
    /\ UNCHANGED <<config, source_fs, dest_fs, gogdb, memo, faults, notRunVars>>

RunNext == Begin \/ StartConfig \/ HandleGame \/ EndConfig \/ Finish \/ RunAgain

RunInit == RunStart /\ CleanOff /\ GroupOff /\ InstOff /\ MetaOff /\ DbOff /\ DetailOff

SpecRun == RunInit /\ [][RunNext]_vars

----------------------------------------------------------------------------
(* Claims *)

\* the folders kept by the scan that share game key k
FoldersOfKey(k) ==
    { listing[i] : i \in {j \in 1..Len(listing) :
        /\ ~IsIgnored(ignores, listing[j])
        /\ FolderGameKey(source_type, listing[j]) = k} }

\* C1: among the folders of one game key the grouper selects the one with the
\* numerically largest non-null version token; a folder with a null token is
\* selected only when no folder of the key has a token.
C1_LatestHasLargestToken ==
    (gpc = "grouped" /\ source_type = "gog-games") =>
        \A k \in DOMAIN latest :
            (\E f \in FoldersOfKey(k) : FolderVersion(source_type, f) # NoneVal) =>
                /\ FolderVersion(source_type, latest[k]) # NoneVal
                /\ \A f \in FoldersOfKey(k) :
                       FolderVersion(source_type, f) # NoneVal =>
                           FolderVersion(source_type, f).int <= FolderVersion(source_type, latest[k]).int

Foo == <<"foo">>
FooBase == <<"foo", "_", "base">>
SecondBaseBase == <<"second", "_", "base", "_", "base">>
FooSecondBase == <<"foo", "_", "second", "_", "base">>

\* C4: clean(clean(k)) = clean(k) for every raw key k.
C4_CleanIdempotent ==
    cpc = "recleaned" => reclean_key = clean_key

\* C5 as stated: foo_base is mapped to foo and second_base_base is kept.
C5_SecondBaseBaseKept ==
    cpc # "raw" =>
        /\ (raw_key = FooBase => clean_key = Foo)
        /\ (raw_key = SecondBaseBase => clean_key = SecondBaseBase)

\* C5 amended: foo_base is mapped to foo; a key whose trailing _base is
\* preceded by _second (it ends in _second_base) is kept unchanged; and
\* second_base_base, whose trailing _base is preceded by _base, loses it.
C5_BaseStrippedUnlessSecond ==
    cpc # "raw" =>
        /\ (raw_key = FooBase => clean_key = Foo)
        /\ (EndsWith(raw_key, <<"_", "second", "_", "base">>) => clean_key = raw_key)
        /\ (raw_key = SecondBaseBase => clean_key = <<"second", "_", "base">>)

C5_Witness ==
    cpc = "cleaned" /\ raw_key = FooSecondBase /\ clean_key = FooSecondBase

\* the setup_*.exe folder_files of the folder
Candidates == {folder_files[i] : i \in {j \in 1..Len(folder_files) : IsSetupExe(folder_files[j])}}

\* the place of a name in the folder's enumeration
FileIndex(name) == CHOOSE i \in 1..Len(folder_files) : folder_files[i] = name

\* C6: when some setup_*.exe has a companion -1.bin, the base installer is
\* the shortest-named candidate that has one, whatever the other candidates'
\* lengths and whether or not they match the key.
C6_CompanionWins ==
    (ipc \in {"based", "sorted"} /\ \E c \in Candidates : HasCompanion(folder_files, c)) =>
        /\ base_installer # NoneVal
        /\ base_installer.str \in Candidates
        /\ HasCompanion(folder_files, base_installer.str)
        /\ \A c \in Candidates :
               HasCompanion(folder_files, c) => NameLen(base_installer.str) <= NameLen(c)

\* a shorter candidate that matches the key has no companion; the base has one
C6_Witness ==
    /\ ipc = "based"
    /\ base_installer # NoneVal
    /\ HasCompanion(folder_files, base_installer.str)
    /\ \E c \in Candidates :
           /\ ~HasCompanion(folder_files, c)
           /\ NameLen(c) < NameLen(base_installer.str)
           /\ MainInstallerMatch(inst_key, c)
           /\ ~MainInstallerMatch(inst_key, base_installer.str)

\* C7: no setup_*.exe gives the empty sequence; otherwise the base installer
\* comes first, alone when base_only, and else followed by every other
\* setup_*.exe exactly once, never the base, in enumeration order.
C7_OrderedInstallers ==
    ipc = "sorted" =>
        IF Candidates = {} THEN sorted_installers = <<>>
        ELSE /\ Len(sorted_installers) >= 1
             /\ base_installer # NoneVal
             /\ sorted_installers[1] = base_installer.str
             /\ base_only => Len(sorted_installers) = 1
             /\ ~base_only =>
                    /\ {sorted_installers[i] : i \in 2..Len(sorted_installers)}
                           = Candidates \ {base_installer.str}
                    /\ \A i, j \in 1..Len(sorted_installers) :
                           i # j => sorted_installers[i] # sorted_installers[j]
                    /\ \A i, j \in 2..Len(sorted_installers) :
                           i < j => FileIndex(sorted_installers[i]) < FileIndex(sorted_installers[j])

\* three installers, the base not the first the directory enumerates
C7_Witness ==
    /\ ipc = "sorted"
    /\ ~base_only
    /\ Len(sorted_installers) = 3
    /\ FileIndex(sorted_installers[1]) > FileIndex(sorted_installers[2])

\* what the round trip is to give for one written value
RoundTripValue(v) ==
    IF v # NoneVal /\ "str" \in DOMAIN v /\ (v.str = <<>> \/ LowerText(v.str) = NoneText)
    THEN NoneVal ELSE v

\* C8: a record written by create_meta_file and read back by read_meta_file
\* is the original mapping, except that "" and "none" (in any case) are null.
C8_MetaRoundTrip ==
    mpc = "read" =>
        /\ DOMAIN existing_meta = DOMAIN meta_data
        /\ \A k \in DOMAIN meta_data : existing_meta[k] = RoundTripValue(meta_data[k])

\* C9: a failed refresh leaves the prior artifact as it was (absent stays
\* absent), the constructor does not raise, and every later lookup returns.
C9_RefreshFailureHarmless ==
    (client \notin {"new", "off"} /\ refresh = "failed") =>
        /\ db_file = db_prior
        /\ client = "constructed"

\* the first directory of the list whose {d}/{name} exists and is not empty
FirstExistingNonEmpty(possible, name) ==
    LET hits == {i \in 1..Len(possible) :
                    /\ PathExists(dest_fs, JoinPath(possible[i], name))
                    /\ DirNonEmpty(dest_fs, JoinPath(possible[i], name))}
    IN  IF hits = {} THEN 0 ELSE CHOOSE i \in hits : \A j \in hits : i <= j

\* C10: every record's destination is {d}/{folder_name} for the first d of
\* possible_dest_dirs whose {d}/{folder_name} exists and is not empty, and
\* default_dest_dir/{folder_name} when there is none, whatever any !meta.txt
\* holds.
C10_DestinationChoice ==
    pc = "generated" =>
        \A i \in 1..Len(manifest_data) :
            LET cfg == configs[config_idx]
                r == manifest_data[i]
                first == FirstExistingNonEmpty(cfg.possible_destination_directories, r.game_name)
            IN  r.destination_directory =
                    IF first = 0
                    THEN JoinPath(cfg.default_destination_directory, r.game_name)
                    ELSE JoinPath(cfg.possible_destination_directories[first], r.game_name)

\* the second directory of the list is chosen: the first holds an empty
\* folder, the chosen one is populated and has no !meta.txt
C10_Witness ==
    /\ pc = "generated"
    /\ \E i \in 1..Len(manifest_data) :
           LET cfg == configs[config_idx]
               r == manifest_data[i]
           IN  /\ Len(cfg.possible_destination_directories) = 2
               /\ PathExists(dest_fs, JoinPath(cfg.possible_destination_directories[1], r.game_name))
               /\ r.destination_directory =
                      JoinPath(cfg.possible_destination_directories[2], r.game_name)
               /\ PathAt(dest_fs, r.destination_directory).meta = NoneVal

\* the first run extracted the game handled last and wrote its metadata,
\* for the same source directory and the same resolved version
ExtractedBefore ==
    /\ last # NoneVal
    /\ [config |-> last.config, game_key |-> last.game_key,
        source_directory |-> last.source_directory,
        game_version |-> last.game_version] \in memo

\* C2: a game that one run extracted, writing its metadata, is not handed to
\* the extraction again by the next run without --force when its source
\* directory and resolved version are the same: it is counted as up to date.
C2_RerunIdempotent ==
    (rerun /\ ~args.force /\ ExtractedBefore) => last.outcome = "up_to_date"

\* the re-run skipped a game the first run had extracted
C2_Witness ==
    rerun /\ ~args.force /\ ExtractedBefore /\ last.outcome = "up_to_date"

\* an iteration of the game loop in which the extraction met one of the
\* failures: an installer missing, the tool failing or timing out, nothing
\* extracted
ExtractionFailed ==
    /\ total_games' = total_games + 1
    /\ last'.cause \in {"missing", "nonzero", "timeout", "empty"}

\* C3: a failed extraction (installer missing, tool failing or timing out,
\* nothing extracted) appends exactly one entry for its game to the failure
\* list, writes no metadata for it and leaves the loop at the next game of
\* the same config, so the rest of the batch is still processed.
C3_FailureDoesNotAbort ==
    [][ExtractionFailed =>
          LET game == games_to_process[game_idx]
          IN  /\ last'.outcome = "failed"
              /\ failed_extractions' = Append(failed_extractions, FailureEntry(game))
              /\ MetaFileAt(dest_fs', game.destination_directory) = NoneVal
              /\ successful_games' = successful_games
              /\ pc' = "game"
              /\ game_idx' = game_idx + 1
              /\ config_idx' = config_idx
              /\ games_to_process' = games_to_process
              /\ configs' = configs]_vars

\* a run in which one game failed and a later game, of a later config, was
\* extracted all the same
C3_Witness ==
    /\ Len(failed_extractions) = 1
    /\ last # NoneVal
    /\ last.outcome = "extracted"
    /\ last.config = "c2"
    /\ failed_extractions[1].source_dir # last.source_directory
    /\ pc = "done"

\* the name of the source folder a record was built from
SourceFolderName(r) ==
    LET tree == source_fs[configs[config_idx].source_directory]
    IN  CHOOSE n \in DOMAIN tree.folders :
            JoinPath(configs[config_idx].source_directory, n) = r.source_directory

\* C11: a record whose source folder is a key of the overrides map carries
\* the override list verbatim, whatever the list, the folder and base_only;
\* every other record carries the result of orderedInstallers.
C11_OverrideVerbatim ==
    pc = "generated" =>
        \A i \in 1..Len(manifest_data) :
            LET cfg == configs[config_idx]
                r == manifest_data[i]
                name == SourceFolderName(r)
                folder == source_fs[cfg.source_directory].folders[name]
            IN  r.sorted_installers =
                    IF name \in DOMAIN cfg.overrides
                    THEN cfg.overrides[name].list
                    ELSE GetSortedInstallers(CleanGameKey(r.game_key), folder.files,
                                             args.base_installer_only)

\* what the info-file layer produced for the call in details_of
FromInfo ==
    IF details_of.source_type = "gog-service"
    THEN GetGameDetailsFromInfoFile(details_of.info)
    ELSE [name |-> NoneVal, version |-> NoneVal]
NonEmpty(v) == v # NoneVal /\ v.str # << >>
FromLookup == GetGameName(details_of.db.available, details_of.db.file, details_of.clean_key)
Consulted(layer) == \E i \in 1..Len(consulted) : consulted[i] = layer

\* C12: the name is the info-file name if non-empty, else the lookup-cache
\* name if non-empty, else the title-cased space-joined clean key; the
\* version is the info-file version if non-empty, else the one parsed from
\* the base installer filename, else null; the lookup cache is not queried
\* when the info file produced a name and the filename layer is not
\* consulted when the info file produced a version.
C12_LayeredFallback ==
    dpc = "done" =>
        /\ game_name = IF NonEmpty(FromInfo.name) THEN FromInfo.name
                       ELSE IF NonEmpty(FromLookup) THEN FromLookup
                       ELSE PyStr(NameFromKey(details_of.clean_key))
        /\ game_version = IF NonEmpty(FromInfo.version) THEN FromInfo.version
                          ELSE GetGameVersionFromBaseInstaller(details_of.clean_key,
                                                               details_of.files)
        /\ NonEmpty(FromInfo.name) => ~Consulted("gogdb")
        /\ NonEmpty(FromInfo.version) => ~Consulted("installer")
C12_Witness ==
    /\ dpc = "done"
    /\ NonEmpty(FromInfo.name) /\ NonEmpty(FromLookup) /\ FromLookup # FromInfo.name
    /\ ~NonEmpty(FromInfo.version) /\ game_version # NoneVal
    /\ consulted = <<"info", "installer">>

\* the lines of the !info.txt of the call in details_of that match version:
VersionLines ==
    LET lines == details_of.info.list
    IN  {i \in 1..Len(lines) : VersionLineMatch(lines[i]) # NoneVal}

\* C13: the info-file layer yields as version the trimmed remainder of the
\* first line matching version:, whether or not the file has a second line
\* and whether or not that line parses into a name.
C13_VersionIndependentOfName ==
    (dpc = "version" /\ Consulted("info") /\ details_of.info # NoneVal /\ VersionLines # {}) =>
        LET first == CHOOSE i \in VersionLines : \A j \in VersionLines : i <= j
        IN  game_version = VersionLineMatch(details_of.info.list[first])

\* C14: an immediate child of source_root that is a regular file never gets
\* a record in the manifest.
C14_OnlyDirectoriesGetRecords ==
    pc = "generated" =>
        \A i \in 1..Len(manifest_data) :
            source_fs[configs[config_idx].source_directory]
                .folders[SourceFolderName(manifest_data[i])].is_dir

\* the destination roots of the configuration
DestinationRoots ==
    LET cfg == configs[config_idx]
    IN  {cfg.default_destination_directory}
        \cup {cfg.possible_destination_directories[i] :
                 i \in 1..Len(cfg.possible_destination_directories)}

\* C15: the destination directory of every manifest record is a proper
\* child of a destination root, never a root itself.
C15_DestinationBelowRoot ==
    pc = "generated" =>
        \A i \in 1..Len(manifest_data) :
            NormPath(manifest_data[i].destination_directory) \notin DestinationRoots

\* C16: within one manifest, distinct game keys have distinct destination
\* directories.
C16_DistinctDestinations ==
    pc = "generated" =>
        \A i, j \in 1..Len(manifest_data) :
            manifest_data[i].game_key # manifest_data[j].game_key =>
                NormPath(manifest_data[i].destination_directory)
                    # NormPath(manifest_data[j].destination_directory)

\* C17: when the artifact was absent at construction and the refresh
\* succeeded, a lookup through that client of a key that has a row in the
\* refreshed artifact returns its name, not null.
C17_RefreshedArtifactConsulted ==
    (client = "constructed" /\ db_prior = NoneVal /\ refresh = "ok") =>
        \A i \in 1..Len(lookups) :
            SearchKey(lookups[i].key) \in DOMAIN db_file.rows =>
                lookups[i].name = PyStr(TitleToName(db_file.rows[SearchKey(lookups[i].key)]))

\* the game the loop handles next
NextGame == games_to_process[game_idx]

\* C18: whenever no exception has escaped, total_games = successful_games +
\* the number of entries of the failure list; a game whose installer set is
\* empty is not counted, not extracted and gets no metadata; every other
\* game adds one to total_games and to exactly one of the two counters, and
\* a skipped up-to-date game adds to successful_games.
C18_RunAccounting ==
    /\ [](pc # "raised" => total_games = successful_games + Len(failed_extractions))
    /\ [][(pc = "game" /\ game_idx <= Len(games_to_process) /\ pc' # "raised") =>
            IF NextGame.sorted_installers = <<>>
            THEN UNCHANGED <<total_games, successful_games, failed_extractions, dest_fs>>
            ELSE /\ total_games' = total_games + 1
                 /\ \/ /\ successful_games' = successful_games + 1
                       /\ failed_extractions' = failed_extractions
                    \/ /\ successful_games' = successful_games
                       /\ Len(failed_extractions') = Len(failed_extractions) + 1
                 /\ UpToDate(dest_fs, NextGame, args.force) =>
                        /\ successful_games' = successful_games + 1
                        /\ dest_fs' = dest_fs]_vars
C18_Witness ==
    /\ pc = "done"
    /\ Len(games_to_process) = 2
    /\ \E i \in 1..2 : games_to_process[i].sorted_installers = <<>>
    /\ total_games = 1
    /\ successful_games = 0
    /\ Len(failed_extractions) = 1

====
